---- MODULE Spec2Model ----
(***************************************************************************)
(* Model of cache2/main.go: Service.Work, the in-flight de-duplication of  *)
(* ExpensiveFibonacci(job) among concurrent goroutines.                    *)
(*                                                                         *)
(* One goroutine per element of Procs, each running Service.Work(job[p])   *)
(* once, as main starts them.  A program counter "Lnn" means: the          *)
(* goroutine is about to execute line nn of cache2/main.go.  The sync.     *)
(* RWMutex is the pair (readers, writer).  The unbuffered channel made at  *)
(* line 28 by goroutine p is identified with p.                            *)
(*                                                                         *)
(* The other programs of the repository follow, each with its own          *)
(* variables and specification: SimpleRedisCache (07_adapter), sequential  *)
(* and under demonstrateConcurrency; Memory (08_observer);                 *)
(* GetDataBaseInstance (06_singleton); Deposit and Balance (sync).         *)
(***************************************************************************)
EXTENDS Integers, Sequences, FiniteSets, TLC

\* ---------------------------------------------------------------- bounds
NumProcs == 3
NumJobs == 2

Procs == 1..NumProcs
Jobs == 1..NumJobs
None == 0

VARIABLES
    pc,               \* [Procs -> label]: the line each goroutine is about to run
    job,              \* [Procs -> Jobs]: the argument of each Work call
    readers,          \* goroutines holding s.mu in read mode
    writer,           \* goroutine holding s.mu in write mode, or None
    InProgress,       \* s.InProgress: map[int]bool (absent key reads false)
    IsPending,        \* s.IsPending: map[int][]chan int (absent key: !exists)
    isJobInProgress,  \* local of Work, line 25
    pendingWorkers,   \* local of Work, line 52
    exists,           \* local of Work, line 52
    idx,              \* position of the range loop of line 56
    result,           \* local of Work, line 49 (None before)
    chan,             \* state of the channel made by p: "nil", "open", "closed"
    resp,             \* local of Work, line 37 (None before)
    crashed,          \* the process died of a panic (send on closed channel)
    calls,            \* history: invocations of ExpensiveFibonacci per job
    deliveredBy,      \* history: the goroutine whose send p's channel received
    regKey,           \* history: the key under which p's channel was appended
    settled,          \* history: jobs for which a computing caller finished line 65
    afterSettle       \* history: p took its first lock after its job had settled

vars == <<pc, job, readers, writer, InProgress, IsPending, isJobInProgress,
          pendingWorkers, exists, idx, result, chan, resp, crashed, calls,
          deliveredBy, regKey, settled, afterSettle>>

locals == <<isJobInProgress, pendingWorkers, exists, idx, result, resp>>
history == <<calls, deliveredBy, regKey, settled, afterSettle>>

\* State of the other programs of the repository (each has its own
\* specification below; the steps of Service.Work leave it alone).
VARIABLES
    data,             \* SimpleRedisCache.data: map[string]*CacheItem
    now,              \* the clock read by time.Now().UnixNano()
    call,             \* the last SimpleRedisCache operation and what it returned
    last,             \* history: the last Set or Delete of each key
    cache,            \* Memory.cache: map[int]CachedFunctionResult
    fcalls,           \* history: invocations of Memory.f per key
    first,            \* history: what the first Memory.Get of each key returned
    mret,             \* the last Memory.Get: its key and what it returned
    ngets             \* history: number of Memory.Get calls made

VARIABLES
    wpc,              \* demonstrateConcurrency: the line each writer is about to run
    wi,               \* the loop index i of each writer (line 329)
    rpc,              \* the line each reader is about to run
    ri,               \* the loop index i of each reader (line 340)
    mutex,            \* SimpleRedisCache.mutex: its read holders and write holders
    snap,             \* the table each writer's map assignment works on (line 185)
    got,              \* what the last Get of each reader returned
    csize             \* what the Size call of line 367 returned (NoSize before)

VARIABLES
    spc,              \* 06_singleton: the line each GetDataBaseInstance call is about to run
    mu,               \* 06_singleton mu: the calls holding it
    instance,         \* 06_singleton instance: None (nil) or the DataBase made by that call
    conn,             \* the progress of Connect: "no", "connecting", "connected"
    created,          \* history: DataBase values made (line 28)
    connects,         \* history: Connect invocations (line 29)
    sret              \* what each call returned, and whether Connect had completed

VARIABLES
    dpc,              \* sync/main.go: the line each Deposit goroutine is about to run
    qpc,              \* the line each Balance goroutine is about to run
    rw,               \* sync/main.go mu: its read holders and write holders
    balance,          \* the package variable balance
    sum,              \* the value Deposit read for balance += amount
    printed,          \* the b each Balance call printed (NoSize before)
    returned,         \* the value each Balance call returned (NoSize before)
    final             \* the balance main prints after wg.Wait() (NoSize before)

rvars == <<data, now, call, last>>
mvars == <<cache, fcalls, first, mret, ngets>>
cvars == <<wpc, wi, rpc, ri, mutex, snap, got, csize>>
svars == <<spc, mu, instance, conn, created, connects, sret>>
bvars == <<dpc, qpc, rw, balance, sum, printed, returned, final>>
more == <<cvars, svars, bvars>>
others == <<rvars, mvars, more>>
allvars == <<vars, rvars, mvars, more>>

\* ------------------------------------------------------- maps and mutex
\* Go map read m[k] with the zero value for an absent key.
MapGet(m, k, zero) == IF k \in DOMAIN m THEN m[k] ELSE zero

\* Go map write m[k] = v.
MapSet(m, k, v) == [x \in (DOMAIN m) \cup {k} |-> IF x = k THEN v ELSE m[x]]

\* sync.RWMutex: RLock succeeds when no writer holds the mutex.
CanRLock == writer = None

\* sync.RWMutex: Lock succeeds when nobody holds the mutex.
CanLock == writer = None /\ readers = {}

\* line 85..89: ExpensiveFibonacci returns its argument.
ExpensiveFibonacci(n) == n

\* newService, lines 15..20, and the goroutines main starts, lines 76..81.
\* All goroutines run the same code, so every way of giving them jobs is a
\* renaming of the goroutines of one with the jobs in non-decreasing order.
Init ==
    /\ pc = [p \in Procs |-> "L23"]
    /\ job \in {f \in [Procs -> Jobs] : \A p \in Procs \ {NumProcs} : f[p] <= f[p + 1]}
    /\ readers = {}
    /\ writer = None
    /\ InProgress = [j \in {} |-> FALSE]
    /\ IsPending = [j \in {} |-> <<>>]
    /\ isJobInProgress = [p \in Procs |-> FALSE]
    /\ pendingWorkers = [p \in Procs |-> <<>>]
    /\ exists = [p \in Procs |-> FALSE]
    /\ idx = [p \in Procs |-> 0]
    /\ result = [p \in Procs |-> None]
    /\ chan = [p \in Procs |-> "nil"]
    /\ resp = [p \in Procs |-> None]
    /\ crashed = FALSE
    /\ calls = [j \in Jobs |-> 0]
    /\ deliveredBy = [p \in Procs |-> None]
    /\ regKey = [p \in Procs |-> None]
    /\ settled = {}
    /\ afterSettle = [p \in Procs |-> FALSE]

Goto(p, l) == pc' = [pc EXCEPT ![p] = l]

\* ------------------------------------------------------------ the steps
\* line 23: s.mu.RLock()
RLock23(p) ==
    /\ pc[p] = "L23" /\ ~crashed
    /\ CanRLock
    /\ readers' = readers \cup {p}
    /\ afterSettle' = [afterSettle EXCEPT ![p] = job[p] \in settled]
    /\ Goto(p, "L25")
    /\ UNCHANGED <<others, job, writer, InProgress, IsPending, locals, chan, crashed,
                   calls, deliveredBy, regKey, settled>>

\* line 25: isJobInProgress := s.InProgress[job]
Read25(p) ==
    /\ pc[p] = "L25" /\ ~crashed
    /\ isJobInProgress' = [isJobInProgress EXCEPT ![p] = MapGet(InProgress, job[p], FALSE)]
    /\ Goto(p, "L26")
    /\ UNCHANGED <<others, job, readers, writer, InProgress, IsPending, pendingWorkers,
                   exists, idx, result, resp, chan, crashed, history>>

\* lines 26..29: the job is in progress: RUnlock, make the response channel
RUnlock27(p) ==
    /\ pc[p] = "L26" /\ ~crashed
    /\ isJobInProgress[p]
    /\ readers' = readers \ {p}
    /\ chan' = [chan EXCEPT ![p] = "open"]
    /\ isJobInProgress' = [isJobInProgress EXCEPT ![p] = FALSE]
    /\ Goto(p, "L31")
    /\ UNCHANGED <<others, job, writer, InProgress, IsPending, pendingWorkers, exists,
                   idx, result, resp, crashed, history>>

\* lines 26, 42: the job is not in progress: RUnlock
RUnlock42(p) ==
    /\ pc[p] = "L26" /\ ~crashed
    /\ ~isJobInProgress[p]
    /\ readers' = readers \ {p}
    /\ Goto(p, "L44")
    /\ UNCHANGED <<others, job, writer, InProgress, IsPending, locals, chan, crashed, history>>

\* Lock31 with the plausible slip of taking the mutex in read mode
RLock31(p) ==
    /\ pc[p] = "L31" /\ ~crashed
    /\ CanRLock
    /\ readers' = readers \cup {p}
    /\ Goto(p, "L32")
    /\ UNCHANGED <<others, job, writer, InProgress, IsPending, locals, chan, crashed, history>>

\* line 31: s.mu.Lock()
Lock31(p) ==
    /\ pc[p] = "L31" /\ ~crashed
    /\ CanLock
    /\ writer' = p
    /\ Goto(p, "L32")
    /\ UNCHANGED <<others, job, readers, InProgress, IsPending, locals, chan, crashed, history>>

\* line 32: s.IsPending[job] = append(s.IsPending[job], response)
Append32(p) ==
    /\ pc[p] = "L32" /\ ~crashed
    /\ IsPending' = MapSet(IsPending, job[p], Append(MapGet(IsPending, job[p], <<>>), p))
    /\ regKey' = [regKey EXCEPT ![p] = job[p]]
    /\ Goto(p, "L33")
    /\ UNCHANGED <<others, job, readers, writer, InProgress, locals, chan, crashed,
                   calls, deliveredBy, settled, afterSettle>>

\* Unlock33 with the plausible slip of unlocking only after the receive
Unlock33Held(p) ==
    /\ pc[p] = "L33" /\ ~crashed
    /\ Goto(p, "L37")
    /\ UNCHANGED <<others, job, readers, writer, InProgress, IsPending, locals, chan,
                   crashed, history>>

\* line 33: s.mu.Unlock(); the goroutine then blocks in the receive of line 37
Unlock33(p) ==
    /\ pc[p] = "L33" /\ ~crashed
    /\ writer' = None
    /\ Goto(p, "L37")
    /\ UNCHANGED <<others, job, readers, InProgress, IsPending, locals, chan, crashed, history>>

\* lines 39..40 with the deferred close of line 29: return, closing the channel
Return40(p) ==
    /\ pc[p] = "L40" /\ ~crashed
    /\ chan' = [chan EXCEPT ![p] = "closed"]
    /\ Goto(p, "Done")
    /\ UNCHANGED <<others, job, readers, writer, InProgress, IsPending, locals, crashed, history>>

\* line 44: s.mu.Lock()
Lock44(p) ==
    /\ pc[p] = "L44" /\ ~crashed
    /\ CanLock
    /\ writer' = p
    /\ Goto(p, "L46")
    /\ UNCHANGED <<others, job, readers, InProgress, IsPending, locals, chan, crashed, history>>

\* line 46: s.InProgress[job] = true
Mark46(p) ==
    /\ pc[p] = "L46" /\ ~crashed
    /\ InProgress' = MapSet(InProgress, job[p], TRUE)
    /\ Goto(p, "L47")
    /\ UNCHANGED <<others, job, readers, writer, IsPending, locals, chan, crashed, history>>

\* Unlock47 with the plausible slip of computing inside the critical section
Unlock47Held(p) ==
    /\ pc[p] = "L47" /\ ~crashed
    /\ Goto(p, "L49")
    /\ UNCHANGED <<others, job, readers, writer, InProgress, IsPending, locals, chan,
                   crashed, history>>

\* line 47: s.mu.Unlock()
Unlock47(p) ==
    /\ pc[p] = "L47" /\ ~crashed
    /\ writer' = None
    /\ Goto(p, "L49")
    /\ UNCHANGED <<others, job, readers, InProgress, IsPending, locals, chan, crashed, history>>

\* line 49: the call of ExpensiveFibonacci(job) begins
Call49(p) ==
    /\ pc[p] = "L49" /\ ~crashed
    /\ calls' = [calls EXCEPT ![job[p]] = @ + 1]
    /\ Goto(p, "Fib")
    /\ UNCHANGED <<others, job, readers, writer, InProgress, IsPending, locals, chan, crashed,
                   deliveredBy, regKey, settled, afterSettle>>

\* line 49: ExpensiveFibonacci(job) returns; result := its value
FibReturn(p) ==
    /\ pc[p] = "Fib" /\ ~crashed
    /\ result' = [result EXCEPT ![p] = ExpensiveFibonacci(job[p])]
    /\ Goto(p, "L51")
    /\ UNCHANGED <<others, job, readers, writer, InProgress, IsPending, isJobInProgress,
                   pendingWorkers, exists, idx, resp, chan, crashed, history>>

\* line 49: ExpensiveFibonacci(job) panics instead of returning.  Work has no
\* recover on this path (the only defer, line 29, is on the waiter's path), so
\* the panic unwinds the goroutine and the Go runtime ends the program.
FibAbort(p) ==
    /\ pc[p] = "Fib" /\ ~crashed
    /\ crashed' = TRUE
    /\ Goto(p, "Aborted")
    /\ UNCHANGED <<others, job, readers, writer, InProgress, IsPending, locals, chan, history>>

\* line 51: s.mu.RLock()
RLock51(p) ==
    /\ pc[p] = "L51" /\ ~crashed
    /\ CanRLock
    /\ readers' = readers \cup {p}
    /\ Goto(p, "L52")
    /\ UNCHANGED <<others, job, writer, InProgress, IsPending, locals, chan, crashed, history>>

\* the waiter lists of the keys 1..n of m, one after the other
RECURSIVE AllPending(_, _)
AllPending(m, n) ==
    IF n = 0 THEN <<>> ELSE AllPending(m, n - 1) \o MapGet(m, n, <<>>)

\* line 52, right-hand side: s.IsPending[job]
PendingOf(j) == MapGet(IsPending, j, <<>>)

\* Read52 with the plausible slip of one waiter list shared by all jobs
Read52Shared(p) ==
    /\ pc[p] = "L52" /\ ~crashed
    /\ pendingWorkers' = [pendingWorkers EXCEPT ![p] = AllPending(IsPending, NumJobs)]
    /\ exists' = [exists EXCEPT ![p] = DOMAIN IsPending # {}]
    /\ Goto(p, "L53")
    /\ UNCHANGED <<others, job, readers, writer, InProgress, IsPending, isJobInProgress,
                   idx, result, resp, chan, crashed, history>>

\* line 52: pendingWorkers, exists := s.IsPending[job]
Read52(p) ==
    /\ pc[p] = "L52" /\ ~crashed
    /\ pendingWorkers' = [pendingWorkers EXCEPT ![p] = PendingOf(job[p])]
    /\ exists' = [exists EXCEPT ![p] = job[p] \in DOMAIN IsPending]
    /\ Goto(p, "L53")
    /\ UNCHANGED <<others, job, readers, writer, InProgress, IsPending, isJobInProgress,
                   idx, result, resp, chan, crashed, history>>

\* lines 53..56: s.mu.RUnlock(), then enter the range loop or skip it
RUnlock53(p) ==
    /\ pc[p] = "L53" /\ ~crashed
    /\ readers' = readers \ {p}
    /\ IF exists[p] /\ Len(pendingWorkers[p]) > 0
         THEN /\ idx' = [idx EXCEPT ![p] = 1]
              /\ Goto(p, "L57")
              /\ UNCHANGED <<pendingWorkers, exists>>
         ELSE /\ idx' = [idx EXCEPT ![p] = 0]
              /\ pendingWorkers' = [pendingWorkers EXCEPT ![p] = <<>>]
              /\ exists' = [exists EXCEPT ![p] = FALSE]
              /\ Goto(p, "L62")
    /\ UNCHANGED <<others, job, writer, InProgress, IsPending, isJobInProgress, result,
                   resp, chan, crashed, history>>

\* the channel the sender p is at in its range loop
Target(p) == pendingWorkers[p][idx[p]]

\* lines 56..58 and 37: ch <- result meets resp := <-response (unbuffered
\* channel: the send completes only together with the receive of the waiter)
Send57(p) ==
    /\ pc[p] = "L57" /\ ~crashed
    /\ LET ch == Target(p) IN
        /\ chan[ch] = "open"
        /\ pc[ch] = "L37"
        /\ resp' = [resp EXCEPT ![ch] = result[p]]
        /\ deliveredBy' = [deliveredBy EXCEPT ![ch] = p]
        /\ IF idx[p] < Len(pendingWorkers[p])
             THEN /\ idx' = [idx EXCEPT ![p] = @ + 1]
                  /\ pc' = [pc EXCEPT ![ch] = "L40"]
                  /\ UNCHANGED <<pendingWorkers, exists>>
             ELSE /\ idx' = [idx EXCEPT ![p] = 0]
                  /\ pendingWorkers' = [pendingWorkers EXCEPT ![p] = <<>>]
                  /\ exists' = [exists EXCEPT ![p] = FALSE]
                  /\ pc' = [pc EXCEPT ![ch] = "L40", ![p] = "L62"]
    /\ UNCHANGED <<others, job, readers, writer, InProgress, IsPending, isJobInProgress,
                   result, chan, crashed, calls, regKey, settled, afterSettle>>

\* line 57 on a channel its waiter has closed: panic, the program dies
SendClosed57(p) ==
    /\ pc[p] = "L57" /\ ~crashed
    /\ chan[Target(p)] = "closed"
    /\ crashed' = TRUE
    /\ Goto(p, "Panic")
    /\ UNCHANGED <<others, job, readers, writer, InProgress, IsPending, locals, chan, history>>

\* line 62: s.mu.Lock()
Lock62(p) ==
    /\ pc[p] = "L62" /\ ~crashed
    /\ CanLock
    /\ writer' = p
    /\ Goto(p, "L63")
    /\ UNCHANGED <<others, job, readers, InProgress, IsPending, locals, chan, crashed, history>>

\* line 63: s.InProgress[job] = false
Reset63(p) ==
    /\ pc[p] = "L63" /\ ~crashed
    /\ InProgress' = MapSet(InProgress, job[p], FALSE)
    /\ Goto(p, "L64")
    /\ UNCHANGED <<others, job, readers, writer, IsPending, locals, chan, crashed, history>>

\* Reset64 with the plausible slip of leaving the list as it is
Reset64Keep(p) ==
    /\ pc[p] = "L64" /\ ~crashed
    /\ Goto(p, "L65")
    /\ UNCHANGED <<others, job, readers, writer, InProgress, IsPending, locals, chan, crashed,
                   history>>

\* line 64: s.IsPending[job] = make([]chan int, 0)
Reset64(p) ==
    /\ pc[p] = "L64" /\ ~crashed
    /\ IsPending' = MapSet(IsPending, job[p], <<>>)
    /\ Goto(p, "L65")
    /\ UNCHANGED <<others, job, readers, writer, InProgress, locals, chan, crashed, history>>

\* lines 65..66: s.mu.Unlock() and return
Unlock65(p) ==
    /\ pc[p] = "L65" /\ ~crashed
    /\ writer' = None
    /\ settled' = settled \cup {job[p]}
    /\ Goto(p, "Done")
    /\ UNCHANGED <<others, job, readers, InProgress, IsPending, locals, chan, crashed,
                   calls, deliveredBy, regKey, afterSettle>>

\* =====================================================================
\* 07_adapter/main.go: SimpleRedisCache.  Every method holds c.mutex from its
\* first statement to its return (Lock/RLock with a deferred unlock), so each
\* call is one step.  Durations and UnixNano timestamps are both nanoseconds.
\* =====================================================================
MaxTime == 4
MaxTtl == 2

Keys == {"nombre", "temporal"}
Values == {"Juan", "25"}
Nil == "nil"
Ttls == (0 - 1)..MaxTtl
Times == 1..MaxTime

\* IsExpired with the plausible slip of >= for >
IsExpiredAtDeadline(item, t) ==
    IF item.Expiration = 0 THEN FALSE ELSE t >= item.Expiration

\* lines 146..151: CacheItem.IsExpired, at clock time t
IsExpired(item, t) ==
    IF item.Expiration = 0 THEN FALSE ELSE t > item.Expiration

\* ExpirationOf with the plausible slip of testing ttl != 0
ExpirationOfNonZero(ttl, t) == IF ttl # 0 THEN t + ttl ELSE 0

\* lines 178..182: the expiration Set computes at clock time t
ExpirationOf(ttl, t) == IF ttl > 0 THEN t + ttl ELSE 0

\* SetData with the plausible slip of keeping the expiration of an entry
\* that is already in the map
SetDataKeepExpiration(d, t, k, v, ttl) ==
    MapSet(d, k, [Value |-> v,
                  Expiration |-> IF k \in DOMAIN d THEN d[k].Expiration
                                 ELSE IF ttl > 0 THEN t + ttl ELSE 0])

\* lines 185..188: c.data[key] = &CacheItem{value, expiration}
SetData(d, t, k, v, ttl) ==
    MapSet(d, k, [Value |-> v, Expiration |-> ExpirationOf(ttl, t)])

\* GetOut with the plausible slip of no expiry check
GetOutNoExpiry(d, t, k) ==
    IF k \notin DOMAIN d THEN <<Nil, FALSE>> ELSE <<d[k].Value, TRUE>>

\* lines 207..220: what Get returns, <<value, found>>
GetOut(d, t, k) ==
    IF k \notin DOMAIN d THEN <<Nil, FALSE>>
    ELSE IF IsExpired(d[k], t) THEN <<Nil, FALSE>>
    ELSE <<d[k].Value, TRUE>>

\* DeleteOut with the plausible slip of treating an expired entry as absent
DeleteOutLive(d, k) ==
    IF k \notin DOMAIN d THEN FALSE
    ELSE ~(d[k].Expiration # 0 /\ now > d[k].Expiration)

\* lines 230..237: what Delete returns
DeleteOut(d, k) == k \in DOMAIN d

\* line 231: delete(c.data, key)
DeleteData(d, k) == [x \in (DOMAIN d) \ {k} |-> d[x]]

\* ExistsOut with the plausible slip of no expiry check
ExistsOutNoExpiry(d, t, k) == k \in DOMAIN d

\* lines 245..252: what Exists returns
ExistsOut(d, t, k) ==
    IF k \notin DOMAIN d \/ IsExpired(d[k], t) THEN FALSE ELSE TRUE

\* line 259: len(c.data)
SizeOut(d) == Cardinality(DOMAIN d)

\* the record of a call: its name and arguments, and what it returned
\* (val, ok: the results of Get, Exists, Delete; n: the result of Size)
Called(op, k, v, ttl, val, ok, n) ==
    [op |-> op, key |-> k, value |-> v, ttl |-> ttl, val |-> val, ok |-> ok, n |-> n]

NoCall == Called("none", Nil, Nil, 0, Nil, FALSE, 0)

NoOp == [kind |-> "none", value |-> Nil, t |-> 0, ttl |-> 0, over |-> "absent"]

\* history: what a Set or Delete of k finds in the map at clock time t
Found(d, t, k) ==
    IF k \notin DOMAIN d THEN "absent"
    ELSE IF d[k].Expiration # 0 /\ t > d[k].Expiration THEN "expired" ELSE "live"

\* lines 162..166: NewSimpleRedisCache
RInit ==
    /\ data = [k \in {} |-> [Value |-> Nil, Expiration |-> 0]]
    /\ now = 1
    /\ call = NoCall
    /\ last = [k \in Keys |-> NoOp]

\* lines 173..195: c.Set(k, v, ttl)
Set(k, v, ttl) ==
    /\ data' = SetData(data, now, k, v, ttl)
    /\ call' = Called("Set", k, v, ttl, Nil, FALSE, 0)
    /\ last' = [last EXCEPT ![k] = [kind |-> "set", value |-> v, t |-> now, ttl |-> ttl,
                                    over |-> Found(data, now, k)]]
    /\ UNCHANGED <<now, vars, mvars, more>>

\* Get with the plausible slip of evicting the expired entry it finds
GetEvict(k) ==
    /\ call' = Called("Get", k, Nil, 0, GetOut(data, now, k)[1], GetOut(data, now, k)[2], 0)
    /\ data' = IF k \in DOMAIN data /\ IsExpired(data[k], now)
                 THEN DeleteData(data, k) ELSE data
    /\ UNCHANGED <<now, last, vars, mvars, more>>

\* lines 201..221: c.Get(k)
Get(k) ==
    /\ call' = Called("Get", k, Nil, 0, GetOut(data, now, k)[1], GetOut(data, now, k)[2], 0)
    /\ UNCHANGED <<data, now, last, vars, mvars, more>>

\* lines 225..238: c.Delete(k)
Delete(k) ==
    /\ data' = IF DeleteOut(data, k) THEN DeleteData(data, k) ELSE data
    /\ call' = Called("Delete", k, Nil, 0, Nil, DeleteOut(data, k), 0)
    /\ last' = [last EXCEPT ![k] = [kind |-> "del", value |-> Nil, t |-> now, ttl |-> 0,
                                    over |-> Found(data, now, k)]]
    /\ UNCHANGED <<now, vars, mvars, more>>

\* lines 241..253: c.Exists(k)
Exists(k) ==
    /\ call' = Called("Exists", k, Nil, 0, Nil, ExistsOut(data, now, k), 0)
    /\ UNCHANGED <<data, now, last, vars, mvars, more>>

\* lines 256..260: c.Size()
Size ==
    /\ call' = Called("Size", Nil, Nil, 0, Nil, FALSE, SizeOut(data))
    /\ UNCHANGED <<data, now, last, vars, mvars, more>>

\* the clock advances between calls (line 306: time.Sleep)
Tick ==
    /\ now < MaxTime
    /\ now' = now + 1
    /\ call' = Called("Tick", Nil, Nil, 0, Nil, FALSE, 0)
    /\ UNCHANGED <<data, last, vars, mvars, more>>

\* lines 263..317: a caller makes the calls one after the other
RNext ==
    \/ \E k \in Keys, v \in Values, ttl \in Ttls : Set(k, v, ttl)
    \/ \E k \in Keys : Get(k)
    \/ \E k \in Keys : Delete(k)
    \/ \E k \in Keys : Exists(k)
    \/ Size
    \/ Tick

\* =====================================================================
\* 07_adapter/main.go: demonstrateConcurrency, lines 320..368.  Writers and
\* readers share one SimpleRedisCache; here Set and Get are taken apart into
\* their lock, map access and deferred unlock.  The clock stays at its first
\* value: the run lasts under a second and every ttl is ten.
\* =====================================================================
NumWriters == 2
NumReaders == 2
NumItems == 2
WriterTtl == 10
NoSize == 0 - 1

Writers == 0..(NumWriters - 1)
Readers == 0..(NumReaders - 1)
Items == 0..(NumItems - 1)

\* lines 330..331: the key and the value of writer id, item i
KeyOf(id, i) == <<"worker", id, "item", i>>
ValueOf(id, i) == <<"valor", id, i>>

\* line 341: the key reader id asks for (id%3 is a writer's id)
ReadKey(id, i) == KeyOf(id % NumWriters, i)

NoGet == [key |-> <<>>, val |-> Nil, ok |-> FALSE]
Free == [readers |-> {}, writers |-> {}]

\* lines 323..324 and 350..362: a fresh cache, the workers not yet started
CInit ==
    /\ wpc = [w \in Writers |-> "L175"]
    /\ wi = [w \in Writers |-> 0]
    /\ rpc = [r \in Readers |-> "L203"]
    /\ ri = [r \in Readers |-> 0]
    /\ mutex = Free
    /\ snap = [w \in Writers |-> <<>>]
    /\ got = [r \in Readers |-> NoGet]
    /\ csize = NoSize

\* SetLock with the plausible slip of a value receiver: each call locks its
\* own copy of the mutex and excludes nobody
SetLockCopy(w) ==
    /\ wpc[w] = "L175"
    /\ mutex' = [mutex EXCEPT !.writers = @ \cup {<<"writer", w>>}]
    /\ wpc' = [wpc EXCEPT ![w] = "L185"]
    /\ UNCHANGED <<wi, rpc, ri, snap, got, csize, rvars, vars, mvars, svars, bvars>>

\* line 175 (from line 332): c.mutex.Lock()
SetLock(w) ==
    /\ wpc[w] = "L175"
    /\ mutex.readers = {} /\ mutex.writers = {}
    /\ mutex' = [mutex EXCEPT !.writers = {<<"writer", w>>}]
    /\ wpc' = [wpc EXCEPT ![w] = "L185"]
    /\ UNCHANGED <<wi, rpc, ri, snap, got, csize, rvars, vars, mvars, svars, bvars>>

\* line 185: the map assignment starts from the table as it is now (a Go
\* map assignment is not one atomic step)
SetStoreBegin(w) ==
    /\ wpc[w] = "L185"
    /\ snap' = [snap EXCEPT ![w] = data]
    /\ wpc' = [wpc EXCEPT ![w] = "L188"]
    /\ UNCHANGED <<wi, rpc, ri, mutex, got, csize, rvars, vars, mvars, svars, bvars>>

\* lines 178..188: the table with the new CacheItem becomes c.data
SetStoreEnd(w) ==
    /\ wpc[w] = "L188"
    /\ data' = SetData(snap[w], now, KeyOf(w, wi[w]), ValueOf(w, wi[w]), WriterTtl)
    /\ snap' = [snap EXCEPT ![w] = <<>>]
    /\ wpc' = [wpc EXCEPT ![w] = "L194"]
    /\ UNCHANGED <<wi, rpc, ri, mutex, got, csize, now, call, last, vars, mvars, svars, bvars>>

\* line 176 deferred: c.mutex.Unlock() as Set returns; lines 329, 333: the
\* writer goes on to its next item, or is done
SetUnlock(w) ==
    /\ wpc[w] = "L194"
    /\ mutex' = [mutex EXCEPT !.writers = @ \ {<<"writer", w>>}]
    /\ wi' = [wi EXCEPT ![w] = @ + 1]
    /\ wpc' = [wpc EXCEPT ![w] = IF wi[w] + 1 < NumItems THEN "L175" ELSE "Done"]
    /\ UNCHANGED <<rpc, ri, snap, got, csize, rvars, vars, mvars, svars, bvars>>

\* line 203 (from line 342): c.mutex.RLock()
GetRLock(r) ==
    /\ rpc[r] = "L203"
    /\ mutex.writers = {}
    /\ mutex' = [mutex EXCEPT !.readers = @ \cup {<<"reader", r>>}]
    /\ rpc' = [rpc EXCEPT ![r] = "L207"]
    /\ UNCHANGED <<wpc, wi, ri, snap, got, csize, rvars, vars, mvars, svars, bvars>>

\* lines 207..220: the lookup, the expiry check and the value Get returns
GetRead(r) ==
    /\ rpc[r] = "L207"
    /\ LET k == ReadKey(r, ri[r])
       IN  got' = [got EXCEPT ![r] = [key |-> k, val |-> GetOut(data, now, k)[1],
                                      ok |-> GetOut(data, now, k)[2]]]
    /\ rpc' = [rpc EXCEPT ![r] = "L204"]
    /\ UNCHANGED <<wpc, wi, ri, mutex, snap, csize, rvars, vars, mvars, svars, bvars>>

\* line 204 deferred: c.mutex.RUnlock() as Get returns; lines 340, 343: the
\* reader goes on to its next item, or is done
GetRUnlock(r) ==
    /\ rpc[r] = "L204"
    /\ mutex' = [mutex EXCEPT !.readers = @ \ {<<"reader", r>>}]
    /\ ri' = [ri EXCEPT ![r] = @ + 1]
    /\ rpc' = [rpc EXCEPT ![r] = IF ri[r] + 1 < NumItems THEN "L203" ELSE "Done"]
    /\ UNCHANGED <<wpc, wi, snap, got, csize, rvars, vars, mvars, svars, bvars>>

\* lines 365..367: after wg.Wait(), cache.Size()
SizeAfterWait ==
    /\ \A w \in Writers : wpc[w] = "Done"
    /\ \A r \in Readers : rpc[r] = "Done"
    /\ csize = NoSize
    /\ csize' = SizeOut(data)
    /\ UNCHANGED <<wpc, wi, rpc, ri, mutex, snap, got, rvars, vars, mvars, svars, bvars>>

\* lines 350..362: the workers run interleaved
Writer(w) == SetLock(w) \/ SetStoreBegin(w) \/ SetStoreEnd(w) \/ SetUnlock(w)
Reader(r) == GetRLock(r) \/ GetRead(r) \/ GetRUnlock(r)

CNext ==
    \/ \E w \in Writers : Writer(w)
    \/ \E r \in Readers : Reader(r)
    \/ SizeAfterWait

\* =====================================================================
\* 06_singleton/main.go: GetDataBaseInstance, called by the goroutines main
\* starts.  A DataBase value is identified with the call that made it.
\* =====================================================================
NumCallers == 4

Callers == 1..NumCallers
NoReturn == [inst |-> None, connected |-> FALSE, called |-> FALSE]

\* lines 9, 21: mu unlocked, instance nil; lines 39..45: the calls not yet begun
SInit ==
    /\ spc = [g \in Callers |-> "L24"]
    /\ mu = {}
    /\ instance = None
    /\ conn = "no"
    /\ created = 0
    /\ connects = 0
    /\ sret = [g \in Callers |-> NoReturn]

SFrame == <<vars, rvars, mvars, cvars, bvars>>

\* Lock24 with the plausible slip of a mutex that is local to the call: it
\* excludes nobody
Lock24Local(g) ==
    /\ spc[g] = "L24"
    /\ mu' = mu \cup {g}
    /\ spc' = [spc EXCEPT ![g] = "L26"]
    /\ UNCHANGED <<instance, conn, created, connects, sret, SFrame>>

\* line 24: mu.Lock()
Lock24(g) ==
    /\ spc[g] = "L24"
    /\ mu = {}
    /\ mu' = {g}
    /\ spc' = [spc EXCEPT ![g] = "L26"]
    /\ UNCHANGED <<instance, conn, created, connects, sret, SFrame>>

\* lines 26, 30: if instance == nil
Check26(g) ==
    /\ spc[g] = "L26"
    /\ spc' = [spc EXCEPT ![g] = IF instance = None THEN "L28" ELSE "L33"]
    /\ UNCHANGED <<mu, instance, conn, created, connects, sret, SFrame>>

\* line 28: instance = &DataBase{}
New28(g) ==
    /\ spc[g] = "L28"
    /\ instance' = g
    /\ created' = created + 1
    /\ conn' = "no"
    /\ spc' = [spc EXCEPT ![g] = "L29"]
    /\ UNCHANGED <<mu, connects, sret, SFrame>>

\* lines 29, 15..17: instance.Connect() is entered
Connect29(g) ==
    /\ spc[g] = "L29"
    /\ connects' = connects + 1
    /\ conn' = "connecting"
    /\ spc' = [spc EXCEPT ![g] = "L18"]
    /\ UNCHANGED <<mu, instance, created, sret, SFrame>>

\* lines 17..19: Connect returns after its sleep
Connected18(g) ==
    /\ spc[g] = "L18"
    /\ conn' = "connected"
    /\ spc' = [spc EXCEPT ![g] = "L33"]
    /\ UNCHANGED <<mu, instance, created, connects, sret, SFrame>>

\* line 33: return instance (the value is read before the deferred unlock)
Return33(g) ==
    /\ spc[g] = "L33"
    /\ sret' = [sret EXCEPT ![g] = [inst |-> instance, connected |-> conn = "connected",
                                    called |-> TRUE]]
    /\ spc' = [spc EXCEPT ![g] = "L25"]
    /\ UNCHANGED <<mu, instance, conn, created, connects, SFrame>>

\* line 25 deferred: mu.Unlock(), and the call is over
Unlock25(g) ==
    /\ spc[g] = "L25"
    /\ mu' = mu \ {g}
    /\ spc' = [spc EXCEPT ![g] = "Done"]
    /\ UNCHANGED <<instance, conn, created, connects, sret, SFrame>>

GetDataBaseInstance(g) ==
    \/ Lock24(g) \/ Check26(g) \/ New28(g) \/ Connect29(g)
    \/ Connected18(g) \/ Return33(g) \/ Unlock25(g)

\* lines 39..45: the goroutines run interleaved
SNext == \E g \in Callers : GetDataBaseInstance(g)

\* =====================================================================
\* sync/main.go: Deposit and Balance goroutines on the package variable
\* balance, under one sync.RWMutex.
\* =====================================================================
NumDeposits == 3

Deposits == 1..NumDeposits
Balances == 1..NumDeposits

\* lines 19, 47..48: balance 0, the mutex free; lines 50..56: the goroutines
\* not yet begun
BInit ==
    /\ dpc = [d \in Deposits |-> "L30"]
    /\ qpc = [q \in Balances |-> "L38"]
    /\ rw = Free
    /\ balance = 0
    /\ sum = [d \in Deposits |-> 0]
    /\ printed = [q \in Balances |-> NoSize]
    /\ returned = [q \in Balances |-> NoSize]
    /\ final = NoSize

BFrame == <<vars, rvars, mvars, cvars, svars>>

\* line 52: Deposit(i, ...): goroutine d deposits the amount d
Amount(d) == d

\* Lock30 with the plausible slip of a mutex passed by value: the call
\* locks its own copy and excludes nobody
Lock30Copy(d) ==
    /\ dpc[d] = "L30"
    /\ rw' = [rw EXCEPT !.writers = @ \cup {<<"deposit", d>>}]
    /\ dpc' = [dpc EXCEPT ![d] = "L31"]
    /\ UNCHANGED <<qpc, balance, sum, printed, returned, final, BFrame>>

\* line 30: mu.Lock()
Lock30(d) ==
    /\ dpc[d] = "L30"
    /\ rw.readers = {} /\ rw.writers = {}
    /\ rw' = [rw EXCEPT !.writers = {<<"deposit", d>>}]
    /\ dpc' = [dpc EXCEPT ![d] = "L31"]
    /\ UNCHANGED <<qpc, balance, sum, printed, returned, final, BFrame>>

\* line 31, first half: balance + amount is computed from the balance read
Load31(d) ==
    /\ dpc[d] = "L31"
    /\ sum' = [sum EXCEPT ![d] = balance + Amount(d)]
    /\ dpc' = [dpc EXCEPT ![d] = "L31w"]
    /\ UNCHANGED <<qpc, rw, balance, printed, returned, final, BFrame>>

\* line 31, second half: the sum is written to balance
Store31(d) ==
    /\ dpc[d] = "L31w"
    /\ balance' = sum[d]
    /\ dpc' = [dpc EXCEPT ![d] = "L28"]
    /\ UNCHANGED <<qpc, rw, sum, printed, returned, final, BFrame>>

\* lines 28, 27 deferred: mu.Unlock() and wg.Done()
Unlock28(d) ==
    /\ dpc[d] = "L28"
    /\ rw' = [rw EXCEPT !.writers = @ \ {<<"deposit", d>>}]
    /\ dpc' = [dpc EXCEPT ![d] = "Done"]
    /\ UNCHANGED <<qpc, balance, sum, printed, returned, final, BFrame>>

\* line 38: mu.RLock()
RLock38(q) ==
    /\ qpc[q] = "L38"
    /\ rw.writers = {}
    /\ rw' = [rw EXCEPT !.readers = @ \cup {<<"balance", q>>}]
    /\ qpc' = [qpc EXCEPT ![q] = "L39"]
    /\ UNCHANGED <<dpc, balance, sum, printed, returned, final, BFrame>>

\* lines 39..40: b := balance, and b is printed
Print40(q) ==
    /\ qpc[q] = "L39"
    /\ printed' = [printed EXCEPT ![q] = balance]
    /\ qpc' = [qpc EXCEPT ![q] = "L41"]
    /\ UNCHANGED <<dpc, rw, balance, sum, returned, final, BFrame>>

\* line 41: return balance (read again, not b)
Return41(q) ==
    /\ qpc[q] = "L41"
    /\ returned' = [returned EXCEPT ![q] = balance]
    /\ qpc' = [qpc EXCEPT ![q] = "L36"]
    /\ UNCHANGED <<dpc, rw, balance, sum, printed, final, BFrame>>

\* lines 36, 35 deferred: mu.RUnlock() and wg.Done()
RUnlock36(q) ==
    /\ qpc[q] = "L36"
    /\ rw' = [rw EXCEPT !.readers = @ \ {<<"balance", q>>}]
    /\ qpc' = [qpc EXCEPT ![q] = "Done"]
    /\ UNCHANGED <<dpc, balance, sum, printed, returned, final, BFrame>>

\* lines 57..58: after wg.Wait(), main prints balance
Final58 ==
    /\ \A d \in Deposits : dpc[d] = "Done"
    /\ \A q \in Balances : qpc[q] = "Done"
    /\ final = NoSize
    /\ final' = balance
    /\ UNCHANGED <<dpc, qpc, rw, balance, sum, printed, returned, BFrame>>

Deposit(d) == Lock30(d) \/ Load31(d) \/ Store31(d) \/ Unlock28(d)
Balance(q) == RLock38(q) \/ Print40(q) \/ Return41(q) \/ RUnlock36(q)

\* lines 50..58: the goroutines run interleaved
BNext ==
    \/ \E d \in Deposits : Deposit(d)
    \/ \E q \in Balances : Balance(q)
    \/ Final58

\* =====================================================================
\* 08_observer/main.go: Memory, the memoization of a CacheableFunction.
\* Memory.f is any function the caller supplies: what an invocation returns
\* is drawn from Results.
\* =====================================================================
MaxGets == 4

MemKeys == {35, 40, 44}
Results == [value : Values, err : {"nil", "failed"}]
NoResult == [value |-> Nil, err |-> "none"]

\* lines 149..154: newMemory
MInit ==
    /\ cache = [k \in {} |-> NoResult]
    /\ fcalls = [k \in MemKeys |-> 0]
    /\ first = [k \in MemKeys |-> NoResult]
    /\ mret = [key |-> 0, res |-> NoResult]
    /\ ngets = 0

\* MemoryGet with the plausible slip of not storing a failed result
MemoryGetSkipErr(key, r) ==
    /\ ngets < MaxGets
    /\ ngets' = ngets + 1
    /\ IF key \in DOMAIN cache
         THEN /\ mret' = [key |-> key, res |-> cache[key]]
              /\ first' = [first EXCEPT ![key] = IF @ = NoResult THEN cache[key] ELSE @]
              /\ UNCHANGED <<cache, fcalls>>
         ELSE /\ fcalls' = [fcalls EXCEPT ![key] = @ + 1]
              /\ cache' = IF r.err = "nil" THEN MapSet(cache, key, r) ELSE cache
              /\ mret' = [key |-> key, res |-> r]
              /\ first' = [first EXCEPT ![key] = IF @ = NoResult THEN r ELSE @]
    /\ UNCHANGED <<vars, rvars, more>>

\* lines 157..168: m.Get(key), where r is what m.f(key) returns if invoked
MemoryGet(key, r) ==
    /\ ngets < MaxGets
    /\ ngets' = ngets + 1
    /\ IF key \in DOMAIN cache
         THEN /\ mret' = [key |-> key, res |-> cache[key]]
              /\ first' = [first EXCEPT ![key] = IF @ = NoResult THEN cache[key] ELSE @]
              /\ UNCHANGED <<cache, fcalls>>
         ELSE /\ fcalls' = [fcalls EXCEPT ![key] = @ + 1]
              /\ cache' = MapSet(cache, key, r)
              /\ mret' = [key |-> key, res |-> r]
              /\ first' = [first EXCEPT ![key] = IF @ = NoResult THEN r ELSE @]
    /\ UNCHANGED <<vars, rvars, more>>

\* lines 176..191: main calls cache.Get for one key after the other
MNext == \E key \in MemKeys, r \in Results : MemoryGet(key, r)

\* ------------------------------------------------------- specifications
\* lines 22..66: one step of the Work call of goroutine p
Work(p) ==
    \/ RLock23(p) \/ Read25(p) \/ RUnlock27(p) \/ RUnlock42(p)
    \/ Lock31(p) \/ Append32(p) \/ Unlock33(p) \/ Return40(p)
    \/ Lock44(p) \/ Mark46(p) \/ Unlock47(p)
    \/ Call49(p) \/ FibReturn(p)
    \/ RLock51(p) \/ Read52(p) \/ RUnlock53(p)
    \/ Send57(p) \/ SendClosed57(p)
    \/ Lock62(p) \/ Reset63(p) \/ Reset64(p) \/ Unlock65(p)

\* lines 76..81: the goroutines of main run interleaved
Next == \E p \in Procs : Work(p)

\* every program in its initial state
InitAll == Init /\ RInit /\ MInit /\ CInit /\ SInit /\ BInit

Spec == InitAll /\ [][Next]_allvars

\* the job whose computations finish in SpecIndep; those of every other job
\* stay inside ExpensiveFibonacci forever (line 87, an arbitrarily long sleep)
JobB == NumJobs

\* Work(p), with ExpensiveFibonacci returning only for JobB
WorkIndep(p) ==
    \/ RLock23(p) \/ Read25(p) \/ RUnlock27(p) \/ RUnlock42(p)
    \/ Lock31(p) \/ Append32(p) \/ Unlock33(p) \/ Return40(p)
    \/ Lock44(p) \/ Mark46(p) \/ Unlock47(p)
    \/ Call49(p)
    \/ (job[p] = JobB /\ FibReturn(p))
    \/ RLock51(p) \/ Read52(p) \/ RUnlock53(p)
    \/ Send57(p) \/ SendClosed57(p)
    \/ Lock62(p) \/ Reset63(p) \/ Reset64(p) \/ Unlock65(p)

NextIndep == \E p \in Procs : WorkIndep(p)

\* the Go scheduler runs every goroutine that can take a step
SpecIndep ==
    InitAll /\ [][NextIndep]_allvars /\ \A p \in Procs : WF_allvars(WorkIndep(p))

\* Work(p), with an ExpensiveFibonacci that may panic
WorkAbort(p) == Work(p) \/ FibAbort(p)

NextAbort == \E p \in Procs : WorkAbort(p)

SpecAbort == InitAll /\ [][NextAbort]_allvars

\* the Service with no Work call running, for the specifications of the
\* other programs
Idle == InitAll /\ job = [p \in Procs |-> 1]

\* demonstrateBasicOperations: one caller of a SimpleRedisCache
SpecRedis == Idle /\ [][RNext]_allvars

\* 08_observer main: one caller of a Memory
SpecMemory == Idle /\ [][MNext]_allvars

\* 06_singleton main: concurrent calls of GetDataBaseInstance
SpecSingleton == Idle /\ [][SNext]_allvars

\* sync/main.go main: the Deposit and Balance goroutines
SpecBank == Idle /\ [][BNext]_allvars

\* demonstrateConcurrency: writers and readers of one SimpleRedisCache
SpecConcurrency == Idle /\ [][CNext]_allvars

\* ----------------------------------------------------------- the claims
Computing(j) == {p \in Procs : pc[p] = "Fib" /\ job[p] = j}

\* what the Work call of p ended up with: the value it received as a waiter,
\* or the value it computed
Outcome(p) == IF deliveredBy[p] # None THEN resp[p] ELSE result[p]

\* the channels still registered under job j
Registered(j) == {PendingOf(j)[i] : i \in 1..Len(PendingOf(j))}

\* C1: for every job, at most one goroutine is inside ExpensiveFibonacci(job)
\* at any time (the check of InProgress[job] and its setting are one atomic
\* check-and-transition).
C1_AtMostOneComputing == \A j \in Jobs : Cardinality(Computing(j)) <= 1

\* C2: when all the concurrent Work calls are for the same fresh job,
\* ExpensiveFibonacci is invoked at most once while they run and exactly once
\* when all have returned, and all calls end with the same result.
C2_SingleInvocation ==
    \A j \in Jobs :
        (\A p \in Procs : job[p] = j) =>
            /\ calls[j] <= 1
            /\ (\A p \in Procs : pc[p] = "Done") =>
                   /\ calls[j] = 1
                   /\ \A p, q \in Procs : Outcome(p) = Outcome(q)

\* C3: no lost waiters: a goroutine that saw InProgress[job] = true and waits
\* in the receive of line 37 eventually gets a result and returns.  Stated on
\* finite runs: no state has a waiter blocked in its receive while every
\* other goroutine has returned (nobody is left to deliver to it).
C3_NoLostWaiter ==
    \A p \in Procs :
        ~crashed /\ pc[p] = "L37" => \E q \in Procs \ {p} : pc[q] # "Done"

\* C4: every registered waiter channel gets exactly one delivery: no computing
\* caller attempts a send on a channel whose waiter already received a result
\* (in particular none on a closed channel).
C4_ExactlyOneDelivery ==
    \A p \in Procs : pc[p] = "L57" => deliveredBy[Target(p)] = None

\* C5: the settle sequence is atomic with respect to waiter registration: the
\* reset of line 64 never discards a channel that was not delivered to.
C5_SettleAtomic ==
    \A p \in Procs :
        pc[p] = "L64" => \A ch \in Registered(job[p]) : deliveredBy[ch] # None

\* C6: a goroutine never holds the mutex, in read or in write mode, while it
\* executes ExpensiveFibonacci, while it sends to a waiter, or while it waits
\* in its receive.
C6_NoLockWhileBlocking ==
    \A p \in Procs :
        pc[p] \in {"Fib", "L57", "L37"} => p \notin readers /\ writer # p

C6_Witness ==
    \E p, q, r \in Procs :
        /\ pc[p] = "Fib" /\ pc[q] = "L57" /\ pc[r] = "L37"
        /\ p \notin readers /\ writer # p

\* C7: independent jobs do not block each other: while the computations of all
\* other jobs never finish, a Work(JobB) call that is the only call for JobB
\* takes the mutex, computes and returns.
C7_IndependentJobs ==
    <>(\A p \in Procs :
          (job[p] = JobB /\ \A q \in Procs \ {p} : job[q] # JobB) => pc[p] = "Done")

C7_Witness ==
    \E p, q, r \in Procs :
        /\ job[p] = JobB /\ pc[p] = "Done" /\ calls[JobB] = 1
        /\ job[q] # JobB /\ pc[q] = "Fib"
        /\ job[r] # JobB /\ pc[r] = "L37"

\* C8: every read of InProgress or IsPending happens with the mutex held, every
\* write with the mutex held in write mode, and a write excludes every other
\* holder: a step that changes either map is a step of the one writer.
C8_LockDiscipline ==
    /\ [](\A p \in Procs :
            /\ pc[p] \in {"L25", "L52"} => (p \in readers \/ writer = p)
            /\ pc[p] \in {"L32", "L46", "L63", "L64"} => writer = p
            /\ writer = p => readers = {})
    /\ [][(InProgress' # InProgress \/ IsPending' # IsPending) =>
            (writer \in Procs /\ readers = {} /\ pc'[writer] # pc[writer])]_vars

C8_Witness ==
    \E p, q, r \in Procs :
        /\ pc[p] = "L32" /\ writer = p
        /\ pc[q] = "L62"
        /\ pc[r] = "L23"

\* C9: waiter state is never shared across jobs: a value delivered to a waiter
\* of job j is ExpensiveFibonacci(j), sent by a computing caller of j, and a
\* computing caller of j only sends on channels registered under key j.
C9_NoCrossJob ==
    \A p \in Procs :
        /\ deliveredBy[p] # None =>
              /\ job[deliveredBy[p]] = job[p]
              /\ resp[p] = ExpensiveFibonacci(job[p])
        /\ pc[p] = "L57" =>
              \A i \in 1..Len(pendingWorkers[p]) :
                  regKey[pendingWorkers[p][i]] = job[p]

C9_Witness ==
    \E p, q \in Procs :
        /\ deliveredBy[p] # None
        /\ job[q] # job[p] /\ calls[job[q]] > 0

\* C10: a Work(job) call that arrives after a computation of the same job has
\* settled takes a fast path: it neither registers and blocks as a waiter nor
\* invokes ExpensiveFibonacci(job) again.
C10_FastPathAfterSettle ==
    \A p \in Procs :
        afterSettle[p] => pc[p] \notin {"L31", "L32", "L33", "L37", "L49", "Fib"}

\* C11: TTL rule: an entry Set at clock time t with ttl > 0 and not Set or
\* Deleted since is live (found by Get and by Exists) at every time up to and
\* including t + ttl and expired at every later time; an entry Set with
\* ttl = 0 is live at every later time.
C11_TtlRule ==
    \A k \in Keys :
        (last[k].kind = "set" /\ last[k].ttl >= 0) =>
            LET live == last[k].ttl = 0 \/ now <= last[k].t + last[k].ttl
            IN  /\ GetOut(data, now, k)[2] = live
                /\ ExistsOut(data, now, k) = live

C11_Witness ==
    \E k, x \in Keys :
        /\ last[k].kind = "set" /\ last[k].ttl > 0
        /\ now > last[k].t + last[k].ttl
        /\ call.op = "Get" /\ call.key = k /\ ~call.ok
        /\ last[x].kind = "set" /\ last[x].ttl = 0 /\ now > last[x].t

\* C12: Get(key) returns (v, true) exactly when the most recent Set or Delete
\* of key was a Set(key, v, ttl) whose entry has not expired at the time of
\* the Get, and (nil, false) in every other case.
C12_GetResult ==
    call.op = "Get" =>
        LET l == last[call.key]
        IN  IF l.kind = "set" /\ ~(l.ttl > 0 /\ now > l.t + l.ttl)
              THEN call.val = l.value /\ call.ok
              ELSE call.val = Nil /\ ~call.ok

C12_Witness ==
    /\ call.op = "Get" /\ call.ok
    /\ last[call.key].over = "expired"
    /\ last[call.key].ttl > 0
    /\ \E x \in Keys : last[x].kind = "del"

\* C13: Size() returns the number of live entries: an entry that has expired
\* but is still in the map is not counted.
C13_SizeCountsLive ==
    call.op = "Size" =>
        call.n = Cardinality({k \in DOMAIN data :
                                ~(data[k].Expiration # 0 /\ now > data[k].Expiration)})

\* C14: in every state and at every clock time Exists(key) returns the found
\* result of Get(key), for every key.
C14_ExistsIsGetFound ==
    \A k \in Keys : ExistsOut(data, now, k) = GetOut(data, now, k)[2]

C14_Witness ==
    \E k \in Keys :
        /\ k \in DOMAIN data
        /\ data[k].Expiration # 0 /\ now > data[k].Expiration
        /\ call.op = "Exists" /\ call.key = k /\ ~call.ok

\* C15: Delete(key) returns true exactly when key was in the map before the
\* call, expired or not; it removes key and leaves every other entry as it
\* was; and until the next Set of key, Get and Exists report not-found.
C15_Delete ==
    /\ [][call'.op = "Delete" =>
            LET k == call'.key
            IN  /\ call'.ok = (k \in DOMAIN data)
                /\ k \notin DOMAIN data'
                /\ \A x \in Keys \ {k} :
                      /\ (x \in DOMAIN data') = (x \in DOMAIN data)
                      /\ x \in DOMAIN data => data'[x] = data[x]]_rvars
    /\ [](\A k \in Keys :
            last[k].kind = "del" =>
                /\ GetOut(data, now, k) = <<Nil, FALSE>>
                /\ ~ExistsOut(data, now, k))

C15_Witness ==
    /\ call.op = "Delete" /\ call.ok
    /\ last[call.key].kind = "del" /\ last[call.key].over = "expired"
    /\ \E x \in Keys : x \in DOMAIN data

\* C16: Set(key, v, ttl) installs a new entry whatever the map holds for key,
\* with the value v and the expiration of this call, and leaves every other
\* key as it was; a Get(key) before the new expiration, with no Set or Delete
\* of key in between, returns (v, true).
C16_SetOverwrites ==
    /\ [][call'.op = "Set" =>
            LET k == call'.key
            IN  /\ k \in DOMAIN data'
                /\ data'[k].Value = call'.value
                /\ data'[k].Expiration = (IF call'.ttl > 0 THEN now + call'.ttl ELSE 0)
                /\ \A x \in Keys \ {k} :
                      /\ (x \in DOMAIN data') = (x \in DOMAIN data)
                      /\ x \in DOMAIN data => data'[x] = data[x]]_rvars
    /\ [](\A k \in Keys :
            (/\ call.op = "Get" /\ call.key = k
             /\ last[k].kind = "set"
             /\ (last[k].ttl <= 0 \/ now <= last[k].t + last[k].ttl)) =>
                (call.val = last[k].value /\ call.ok))

C16_Witness ==
    /\ call.op = "Get" /\ call.ok
    /\ last[call.key].kind = "set" /\ last[call.key].over = "live"
    /\ last[call.key].ttl > 0 /\ now > last[call.key].t

\* C17: in any sequence of Memory.Get calls f is invoked exactly once per
\* distinct key, at the first Get of that key, and every Get of a key returns
\* the (value, error) pair of the first one, also when it carries an error.
C17_Memoized ==
    /\ \A k \in MemKeys :
          /\ fcalls[k] <= 1
          /\ (fcalls[k] = 1) = (first[k] # NoResult)
    /\ mret.key \in MemKeys => mret.res = first[mret.key]

C17_Witness ==
    \E k \in MemKeys :
        /\ mret.key = k /\ mret.res.err = "failed"
        /\ fcalls[k] = 1 /\ \A x \in MemKeys \ {k} : fcalls[x] = 0
        /\ ngets >= 2

\* C18: if the computation a Work caller started panics instead of returning,
\* every waiter registered for that job is still released: once the computing
\* caller is dead, no waiter of its job is left blocked on its channel.
C18_AbortReleasesWaiters ==
    \A p \in Procs :
        pc[p] = "Aborted" =>
            \A q \in Procs \ {p} : ~(job[q] = job[p] /\ pc[q] = "L37")

\* C19: slot cleanup at quiescence: whenever no Work call for job j is
\* running (each is still to start or has returned), InProgress[j] is false
\* and IsPending[j] holds no channel.
C19_SlotCleanup ==
    \A j \in Jobs :
        (\A p \in Procs : job[p] = j => pc[p] \in {"L23", "Done"}) =>
            /\ MapGet(InProgress, j, FALSE) = FALSE
            /\ PendingOf(j) = <<>>

C19_Witness ==
    \E j \in Jobs :
        /\ \A p \in Procs : job[p] = j => pc[p] = "Done"
        /\ \E p, q \in Procs :
              /\ job[p] = j /\ job[q] = j
              /\ deliveredBy[q] = p
        /\ j \in DOMAIN IsPending

\* C20: Get, Exists and Size never change the cache map: after each of them
\* the stored keys, values and expirations are as before, so an expired entry
\* stays in the map until a Set or a Delete of its key.
C20_ReadsLeaveMap ==
    /\ [][call'.op \in {"Get", "Exists", "Size"} => data' = data]_rvars
    /\ [](\A k \in Keys :
            (last[k].kind = "set" /\ call.op \in {"Get", "Exists", "Size"}) =>
                /\ k \in DOMAIN data
                /\ data[k] = [Value |-> last[k].value,
                              Expiration |-> IF last[k].ttl > 0
                                               THEN last[k].t + last[k].ttl ELSE 0])

C20_Witness ==
    \E k \in Keys :
        /\ call.op = "Get" /\ call.key = k /\ ~call.ok
        /\ k \in DOMAIN data
        /\ data[k].Expiration # 0 /\ now > data[k].Expiration

\* C21: SimpleRedisCache is safe under concurrent use: writers Set pairwise
\* distinct keys while readers Get; no insert is lost (once every writer has
\* finished, each key set is in the map with the value its writer stored and
\* Size is the number of distinct keys set), and every Get returns not-found
\* or the value a Set stored for exactly that key.
C21_ConcurrentSafe ==
    /\ (\A w \in Writers : wpc[w] = "Done") =>
          /\ \A w \in Writers, i \in Items :
                /\ KeyOf(w, i) \in DOMAIN data
                /\ data[KeyOf(w, i)].Value = ValueOf(w, i)
          /\ SizeOut(data) = NumWriters * NumItems
    /\ csize # NoSize => csize = NumWriters * NumItems
    /\ \A w \in Writers, i \in Items :
          (i < wi[w]) => (KeyOf(w, i) \in DOMAIN data /\ data[KeyOf(w, i)].Value = ValueOf(w, i))
    /\ \A r \in Readers :
          got[r] # NoGet =>
              \/ (got[r].val = Nil /\ ~got[r].ok)
              \/ /\ got[r].ok
                 /\ \E w \in Writers, i \in Items :
                       /\ got[r].key = KeyOf(w, i)
                       /\ got[r].val = ValueOf(w, i)
                       /\ (i < wi[w] \/ (i = wi[w] /\ wpc[w] = "L194"))

C21_Witness ==
    /\ csize = NumWriters * NumItems
    /\ \E r \in Readers : got[r].ok /\ got[r].key = ReadKey(r, NumItems - 1)

\* C22: in every interleaving of concurrent GetDataBaseInstance calls one
\* DataBase is made and Connect is invoked once; every call returns that
\* same instance, and only after its Connect has completed.
C22_Singleton ==
    /\ created <= 1 /\ connects <= 1
    /\ \A g \in Callers :
          sret[g].called =>
              /\ created = 1 /\ connects = 1
              /\ sret[g].inst # None
              /\ sret[g].inst = instance
              /\ sret[g].connected
    /\ \A g, h \in Callers :
          (sret[g].called /\ sret[h].called) => sret[g].inst = sret[h].inst

C22_Witness ==
    /\ \A g \in Callers : spc[g] = "Done" /\ sret[g].called
    /\ \E g \in Callers : sret[g].inst # g
    /\ instance # 1

\* the total of the amounts of a set of deposits
RECURSIVE SumOf(_)
SumOf(S) == IF S = {} THEN 0 ELSE LET d == CHOOSE x \in S : TRUE
                                   IN  Amount(d) + SumOf(S \ {d})

\* C23: no deposit is lost: at every moment balance is the total of the
\* deposits made so far, and once all goroutines have finished it is the
\* total of all of them, which main prints; each Balance call returns the
\* value it printed, and that value is the total of a subset of the deposits.
C23_NoLostDeposit ==
    /\ balance = SumOf({d \in Deposits : dpc[d] \in {"L28", "Done"}})
    /\ (\A d \in Deposits : dpc[d] = "Done") => balance = SumOf(Deposits)
    /\ final # NoSize => final = SumOf(Deposits)
    /\ \A q \in Balances :
          /\ printed[q] # NoSize =>
                \E S \in SUBSET Deposits : printed[q] = SumOf(S)
          /\ returned[q] # NoSize => returned[q] = printed[q]

C23_Witness ==
    /\ final = SumOf(Deposits)
    /\ \E q \in Balances : returned[q] = 0
    /\ \E q \in Balances : returned[q] # 0 /\ returned[q] # SumOf(Deposits)

\* C24: the demo workload of cache2 terminates: every Work call main starts
\* returns, so the program never comes to rest (no goroutine able to take a
\* step: blocked on a channel, or dead after a send on a closed channel)
\* while a call has yet to return and wg.Wait() is still waiting.
C24_DemoTerminates ==
    (\A p \in Procs : ~ENABLED Work(p)) => \A p \in Procs : pc[p] = "Done"

\* C25: Set with a negative ttl stores Expiration = 0, so the entry is
\* treated as one set with ttl = 0: Get and Exists find it at every later time.
C25_NegativeTtl ==
    \A k \in Keys :
        (last[k].kind = "set" /\ last[k].ttl < 0) =>
            /\ k \in DOMAIN data /\ data[k].Expiration = 0
            /\ GetOut(data, now, k) = <<last[k].value, TRUE>>
            /\ ExistsOut(data, now, k)

C25_Witness ==
    \E k \in Keys :
        /\ last[k].kind = "set" /\ last[k].ttl < 0 /\ last[k].t > 1
        /\ now > last[k].t
        /\ call.op = "Get" /\ call.key = k /\ call.ok

====
